---- MODULE Spec2Model ----
(***************************************************************************)
(* Licensing and usage-metering backend (Express + Postgres).              *)
(*                                                                         *)
(* The model follows the server that owns the licenses table with the      *)
(* last_reset_at column (src/unnamed/part_000): the quota normalizer, the  *)
(* /usage, /optimize/image, /admin/create-license, /admin/reset-license    *)
(* and /freemius/webhook handlers.  Every handler is an async function:    *)
(* one action of the model is the execution of one SQL statement (or one   *)
(* awaited external call) followed by the synchronous code that runs       *)
(* until the next await.  Handlers of different requests interleave at     *)
(* the awaits.                                                             *)
(*                                                                         *)
(* Text the code inspects character by character (plan names) is a         *)
(* sequence of one-character strings; opaque text (license keys, site      *)
(* URLs, messages) is a string.  A timestamp is a number of ticks.         *)
(***************************************************************************)
EXTENDS Integers, Sequences, FiniteSets, TLC

VARIABLES
    db,           \* the licenses table: license_key -> row
    clock,        \* the wall clock (new Date(), NOW())
    proc,         \* the request being handled in each slot
    out,          \* the answer sent by the last step, if it sent one
    started,      \* number of requests received so far
    okThisMonth,  \* history: per key, generations answered success:true this month
    resetMonths   \* history: <<key, year, month>> of every normalizer reset write

vars == <<db, clock, proc, out, started, okThisMonth, resetMonths>>

----------------------------------------------------------------------------
(* Bounds of the model *)

MaxReqs == 2        \* requests received in one behaviour
MaxTicks == 1       \* clock ticks in one behaviour
TicksPerMonth == 2  \* clock resolution

Procs == {1, 2}
Keys == {"K1", "K2"}

----------------------------------------------------------------------------
(* Text *)

Upper == <<"A","B","C","D","E","F","G","H","I","J","K","L","M",
           "N","O","P","Q","R","S","T","U","V","W","X","Y","Z">>
Lower == <<"a","b","c","d","e","f","g","h","i","j","k","l","m",
           "n","o","p","q","r","s","t","u","v","w","x","y","z">>

LowerChar(c) ==
    IF \E i \in DOMAIN Upper : Upper[i] = c
    THEN Lower[CHOOSE i \in DOMAIN Upper : Upper[i] = c]
    ELSE c

\* String.prototype.toLowerCase
toLowerCase(s) == [i \in DOMAIN s |-> LowerChar(s[i])]

\* String.prototype.includes
includes(s, sub) ==
    \E i \in 0..(Len(s) - Len(sub)) : SubSeq(s, i + 1, i + Len(sub)) = sub

\* JavaScript null / undefined in a text position
NullStr == <<"null">>
Truthy(s) == s # NullStr /\ s # <<>>
\* a || b on text
OrElse(a, b) == IF Truthy(a) THEN a ELSE b

S_starter == <<"s","t","a","r","t","e","r">>
S_pro == <<"p","r","o">>
S_enterprise == <<"e","n","t","e","r","p","r","i","s","e">>

----------------------------------------------------------------------------
(* Time *)

MonthsPerYear == 12
NoTime == -1    \* a NULL timestamp

getUTCFullYear(t) == t \div (MonthsPerYear * TicksPerMonth)
getUTCMonth(t) == (t \div TicksPerMonth) % MonthsPerYear

\* the last tick of the second month of year 1
T0 == (MonthsPerYear + 2) * TicksPerMonth - 1

----------------------------------------------------------------------------
(* Plans *)

IsOfficialPlan(p) == p \in {S_starter, S_pro, S_enterprise}

PLAN_QUOTAS(p) ==
    CASE p = S_starter -> 300
      [] p = S_pro -> 1500
      [] p = S_enterprise -> 5000

----------------------------------------------------------------------------
(* The licenses table *)

NoKey == ""          \* a missing (or empty) license_key
NoUrl == "null"      \* a NULL site_url

Row(plan, quota, used, site, created, lastReset) ==
    [plan |-> plan, monthly_quota |-> quota, used_this_month |-> used,
     site_url |-> site, created_at |-> created, last_reset_at |-> lastReset]

NoRow == Row(NullStr, 0, 0, NoUrl, NoTime, NoTime)

\* Rows the table can hold when the server starts.  Rows written by this
\* server carry a lowercase plan, its official quota and a last_reset_at;
\* rows written by the earlier server (src/server.js, createLicense) carry
\* the plan and monthly_quota the admin typed, site_url '' and no
\* last_reset_at.
LegacyRow == Row(S_starter, 100, 1, "", T0 - TicksPerMonth, NoTime)

InitRows ==
    { \* an unrecognized plan keeps its stored quota
      Row(<<"g","o","l","d">>, 1, 0, NoUrl, T0 - 1, T0 - 1),
      \* written by the earlier server: default quota 100, never reset
      LegacyRow,
      \* plan typed in capitals, last reset in the previous month
      Row(<<"P","r","o">>, 1500, 1499, NoUrl, T0 - TicksPerMonth, T0 - TicksPerMonth),
      \* one generation left this month
      Row(S_pro, 1500, 1499, "https://a.example", T0 - 1, T0 - 1),
      \* exhausted, last reset in the same month of the previous year
      Row(S_enterprise, 5000, 5000, NoUrl,
          T0 - MonthsPerYear * TicksPerMonth, T0 - MonthsPerYear * TicksPerMonth) }

\* UPDATE licenses SET ... WHERE license_key = k (no row: nothing changes)
UpdateRow(table, k, newRow) ==
    IF k \in DOMAIN table THEN [table EXCEPT ![k] = newRow] ELSE table

\* INSERT INTO licenses ... (the key is known to be absent)
InsertRow(table, k, newRow) ==
    [x \in DOMAIN table \cup {k} |-> IF x = k THEN newRow ELSE table[x]]

----------------------------------------------------------------------------
(* normalizeLicenseRow: the synchronous computations *)

planLowerOf(row) == toLowerCase(OrElse(row.plan, S_starter))

officialQuota(row) ==
    IF IsOfficialPlan(planLowerOf(row))
    THEN PLAN_QUOTAS(planLowerOf(row))
    ELSE row.monthly_quota

sameMonth(last, now) ==
    /\ getUTCFullYear(last) = getUTCFullYear(now)
    /\ getUTCMonth(last) = getUTCMonth(now)

\* needReset comparing the month alone, not the year
needResetMonthOnly(row, now) ==
    IF row.last_reset_at # NoTime
    THEN getUTCMonth(row.last_reset_at) # getUTCMonth(now)
    ELSE TRUE

needReset(row, now) ==
    IF row.last_reset_at # NoTime
    THEN ~sameMonth(row.last_reset_at, now)
    ELSE TRUE

needQuotaFix(row) == officialQuota(row) # row.monthly_quota

\* the object normalizeLicenseRow returns
NormalizedView(row, now) ==
    [row EXCEPT !.plan = planLowerOf(row),
                !.monthly_quota = officialQuota(row),
                !.used_this_month = IF needReset(row, now) THEN 0 ELSE row.used_this_month]

----------------------------------------------------------------------------
(* Requests and responses *)

Response(status, success, msg) ==
    [status |-> status, success |-> success, msg |-> msg,
     monthly_quota |-> 0, used_this_month |-> 0, remaining |-> 0]

\* the license figures of a success:true answer
WithUsage(resp, lic, remaining) ==
    [resp EXCEPT !.monthly_quota = lic.monthly_quota,
                 !.used_this_month = lic.used_this_month,
                 !.remaining = remaining]

\* status 0: the handler threw outside any try block and nothing is sent
NoAnswer == Response(0, FALSE, "unhandled rejection")

Sent(kind, key, resp) == [kind |-> kind, key |-> key, resp |-> resp]

NoOut == Sent("none", "", Response(0, FALSE, ""))

Idle ==
    [pc |-> "idle", kind |-> "none", key |-> "", ctx |-> "none", img |-> "none",
     row |-> NoRow, now |-> NoTime, ins |-> NoRow, rest |-> <<>>]

\* what a step of a handler leads to: the handler goes on, or it ends
GoOn(rec) == [next |-> rec, out |-> NoOut]
Answer(r, resp) == [next |-> Idle, out |-> Sent(r.kind, r.key, resp)]

InitOkThisMonth(table) ==
    [k \in Keys |->
        IF k \in DOMAIN table /\ table[k].last_reset_at # NoTime
                              /\ sameMonth(table[k].last_reset_at, T0)
        THEN table[k].used_this_month
        ELSE 0]

\* K1 holds any of the rows or none; K2 has no license yet
InitTables ==
    { t \in UNION { [present -> InitRows] : present \in SUBSET Keys } :
        "K2" \notin DOMAIN t }

Init ==
    /\ db \in InitTables
    /\ clock = T0
    /\ proc = [p \in Procs |-> Idle]
    /\ out = NoOut
    /\ started = 0
    /\ okThisMonth = InitOkThisMonth(db)
    /\ resetMonths = {}

\* proc, out and the history of answers after handler p made step o
Step(p, o) ==
    /\ proc' = [proc EXCEPT ![p] = o.next]
    /\ out' = o.out
    /\ okThisMonth' =
          IF o.out.kind = "optimize" /\ o.out.resp.success
          THEN [okThisMonth EXCEPT ![o.out.key] = @ + 1]
          ELSE okThisMonth

----------------------------------------------------------------------------
(* What each handler does when one of its awaited calls throws *)

\* the handlers of /usage, /optimize/image and /admin/create-license await
\* inside try/catch; /admin/reset-license and /freemius/webhook do not
Catch(r) ==
    CASE r.kind = "usage" -> Answer(r, Response(500, FALSE, "Erro no servidor."))
      [] r.kind = "optimize" -> Answer(r, Response(500, FALSE, "Erro ao processar imagem"))
      [] r.kind = "create" -> Answer(r, Response(500, FALSE, "Erro ao criar licença."))
      [] OTHER -> Answer(r, NoAnswer)

\* the outcomes of an error thrown in handler r.  /admin/list-licenses,
\* /admin/reset-license and /freemius/webhook await outside any try/catch:
\* their promise rejects, which a router that ignores the promise leaves
\* unanswered and a router that awaits it hands to the default error
\* handler (HTTP 500)
Thrown(r) ==
    IF r.kind \in {"usage", "optimize", "create"}
    THEN {Catch(r)}
    ELSE {Answer(r, NoAnswer), Answer(r, Response(500, FALSE, "Internal Server Error"))}

----------------------------------------------------------------------------
(* The code that runs when getLicenseFromDB returns, up to the next await *)

\* POST /usage
UsageAfterGet(r, found, lic) ==
    IF ~found
    THEN Answer(r, Response(200, FALSE, "Licença não encontrada."))
    ELSE Answer(r, WithUsage(Response(200, TRUE, ""), lic, 0))

\* the quota test with > in place of >=
quotaReachedStrict(lic) == lic.used_this_month > lic.monthly_quota

\* the quota test of POST /optimize/image
quotaReached(lic) == lic.used_this_month >= lic.monthly_quota

\* POST /optimize/image, after the first read
OptimizeAfterGet(r, found, lic) ==
    IF ~found
    THEN Answer(r, Response(200, FALSE, "Licença inválida"))
    ELSE IF quotaReached(lic)
    THEN Answer(r, Response(200, FALSE, "Limite do plano atingido"))
    ELSE IF r.img = "none"
    THEN Answer(r, Response(400, FALSE, "Nenhuma imagem recebida."))
    ELSE GoOn([Idle EXCEPT !.pc = "resize", !.kind = r.kind, !.key = r.key])

\* POST /optimize/image, after the read that follows incrementUsage
OptimizeAfterIncrement(r, found, lic) ==
    IF ~found
    THEN Catch(r)   \* licUpdated is null: TypeError inside the try block
    ELSE Answer(r, WithUsage(Response(200, TRUE, ""), lic,
                             lic.monthly_quota - lic.used_this_month))

\* create-license going on to the INSERT whatever the existence check found
CreateAfterGetUnchecked(r, found, lic, now) ==
    LET planLower == toLowerCase(OrElse(r.ins.plan, S_starter))
        quota == IF IsOfficialPlan(planLower) THEN PLAN_QUOTAS(planLower) ELSE 300
        site == IF r.ins.site_url = "" THEN NoUrl ELSE r.ins.site_url
    IN GoOn([r EXCEPT !.pc = "insert", !.ctx = "none", !.row = NoRow, !.now = NoTime,
                      !.ins = Row(planLower, quota, 0, site, NoTime, now)])

\* POST /admin/create-license, after the existence check; r.ins holds the
\* plan and site_url of the request
CreateAfterGet(r, found, lic, now) ==
    IF found
    THEN Answer(r, Response(200, FALSE, "Essa licença já existe."))
    ELSE LET planLower == toLowerCase(OrElse(r.ins.plan, S_starter))
             quota == IF IsOfficialPlan(planLower) THEN PLAN_QUOTAS(planLower) ELSE 300
             site == IF r.ins.site_url = "" THEN NoUrl ELSE r.ins.site_url
         IN GoOn([r EXCEPT !.pc = "insert", !.ctx = "none", !.row = NoRow, !.now = NoTime,
                           !.ins = Row(planLower, quota, 0, site, NoTime, now)])

\* POST /admin/create-license, after the read that follows the INSERT
CreateAfterInsert(r, found, lic) ==
    IF found
    THEN Answer(r, WithUsage(Response(200, TRUE, "Licença criada com sucesso."), lic, 0))
    ELSE Answer(r, Response(200, TRUE, "Licença criada com sucesso."))

\* POST /admin/reset-license, after the read that follows the UPDATE
ResetAfterGet(r, found, lic) ==
    IF found
    THEN Answer(r, WithUsage(Response(200, TRUE, "Licença resetada."), lic, 0))
    ELSE Answer(r, Response(200, TRUE, "Licença resetada."))

AfterGet(r, found, lic, now) ==
    CASE r.ctx = "usage" -> UsageAfterGet(r, found, lic)
      [] r.ctx = "opt1" -> OptimizeAfterGet(r, found, lic)
      [] r.ctx = "opt2" -> OptimizeAfterIncrement(r, found, lic)
      [] r.ctx = "create1" -> CreateAfterGet(r, found, lic, now)
      [] r.ctx = "create2" -> CreateAfterInsert(r, found, lic)
      [] r.ctx = "reset" -> ResetAfterGet(r, found, lic)

----------------------------------------------------------------------------
(* getLicenseFromDB and normalizeLicenseRow, statement by statement *)

\* the SELECT, and normalizeLicenseRow up to its first await
Select(p) ==
    /\ proc[p].pc = "select"
    /\ LET r == proc[p]
           row == db[r.key]
       IN Step(p, IF r.key \notin DOMAIN db
                  THEN AfterGet(r, FALSE, NoRow, clock)
                  ELSE IF needReset(row, clock)
                  THEN GoOn([r EXCEPT !.pc = "reset_write", !.row = row, !.now = clock])
                  ELSE IF needQuotaFix(row)
                  THEN GoOn([r EXCEPT !.pc = "quota_write", !.row = row, !.now = clock])
                  ELSE AfterGet(r, TRUE, NormalizedView(row, clock), clock))
    /\ UNCHANGED <<db, clock, started, resetMonths>>

\* UPDATE licenses SET used_this_month = 0, last_reset_at = $2
resetRow(row, now) == [row EXCEPT !.used_this_month = 0, !.last_reset_at = now]

ResetWrite(p) ==
    /\ proc[p].pc = "reset_write"
    /\ LET r == proc[p]
       IN /\ db' = UpdateRow(db, r.key, resetRow(db[r.key], r.now))
          /\ resetMonths' = resetMonths \cup
                            {<<r.key, getUTCFullYear(r.now), getUTCMonth(r.now)>>}
          /\ Step(p, IF needQuotaFix(r.row)
                     THEN GoOn([r EXCEPT !.pc = "quota_write"])
                     ELSE AfterGet(r, TRUE, NormalizedView(r.row, r.now), clock))
    /\ UNCHANGED <<clock, started>>

\* UPDATE licenses SET monthly_quota = $2
fixQuotaRow(row, quota) == [row EXCEPT !.monthly_quota = quota]

QuotaWrite(p) ==
    /\ proc[p].pc = "quota_write"
    /\ LET r == proc[p]
       IN /\ db' = UpdateRow(db, r.key, fixQuotaRow(db[r.key], officialQuota(r.row)))
          /\ Step(p, AfterGet(r, TRUE, NormalizedView(r.row, r.now), clock))
    /\ UNCHANGED <<clock, started, resetMonths>>

----------------------------------------------------------------------------
(* POST /usage and POST /optimize/image *)

\* a request is taken by the first free slot
CanStart(p) ==
    /\ proc[p].pc = "idle"
    /\ \A q \in Procs : q < p => proc[q].pc # "idle"
    /\ started < MaxReqs

Request(kind, key) == [Idle EXCEPT !.kind = kind, !.key = key]

KeyInputs == Keys \cup {""}

UsageStart(p) ==
    /\ CanStart(p)
    /\ \E key \in KeyInputs :
          LET r == Request("usage", key)
          IN Step(p, IF key = ""
                     THEN Answer(r, Response(200, FALSE, "license_key obrigatória"))
                     ELSE GoOn([r EXCEPT !.pc = "select", !.ctx = "usage"]))
    /\ started' = started + 1
    /\ UNCHANGED <<db, clock, resetMonths>>

ImageSources == {"base64", "url", "both", "none"}

OptimizeStart(p) ==
    /\ CanStart(p)
    /\ \E key \in KeyInputs, img \in ImageSources :
          LET r == Request("optimize", key)
          IN Step(p, IF key = ""
                     THEN Answer(r, Response(400, FALSE, "license_key obrigatória"))
                     ELSE GoOn([r EXCEPT !.pc = "select", !.ctx = "opt1", !.img = img]))
    /\ started' = started + 1
    /\ UNCHANGED <<db, clock, resetMonths>>

\* resizeFromBuffer / downloadAndResize succeeded
Resize(p) ==
    /\ proc[p].pc = "resize"
    /\ Step(p, GoOn([proc[p] EXCEPT !.pc = "generate"]))
    /\ UNCHANGED <<db, clock, started, resetMonths>>

\* generateAltFromImage succeeded
Generate(p) ==
    /\ proc[p].pc = "generate"
    /\ Step(p, GoOn([proc[p] EXCEPT !.pc = "increment"]))
    /\ UNCHANGED <<db, clock, started, resetMonths>>

\* UPDATE licenses SET used_this_month = used_this_month + 1
incrementedRow(row) == [row EXCEPT !.used_this_month = @ + 1]

\* incrementUsage, then the call of getLicenseFromDB
IncrementUsage(p) ==
    /\ proc[p].pc = "increment"
    /\ db' = UpdateRow(db, proc[p].key, incrementedRow(db[proc[p].key]))
    /\ Step(p, GoOn([proc[p] EXCEPT !.pc = "select", !.ctx = "opt2"]))
    /\ UNCHANGED <<clock, started, resetMonths>>

\* the image fetch, the resize or the completion call throws
ExternalFail(p) ==
    /\ proc[p].pc \in {"resize", "generate"}
    /\ Step(p, Catch(proc[p]))
    /\ UNCHANGED <<db, clock, started, resetMonths>>

DbPcs == {"select", "reset_write", "quota_write", "increment", "insert",
          "admin_reset", "upsert", "list_select", "list_reset", "list_quota"}

\* pool.query rejects
DbFail(p) ==
    /\ proc[p].pc \in DbPcs
    /\ \E o \in Thrown(proc[p]) : Step(p, o)
    /\ UNCHANGED <<db, clock, started, resetMonths>>

----------------------------------------------------------------------------
(* POST /admin/create-license and POST /admin/reset-license *)

ADMIN_TOKEN == "admin-default"
TokenInputs == {"", ADMIN_TOKEN, "guess"}

tokenRejected(token) == token = "" \/ token # ADMIN_TOKEN

CreatePlans == {NullStr, <<"P","R","O">>, <<"G","o","l","d">>}
SiteInputs == {"", "https://b.example"}

CreateStart(p) ==
    /\ CanStart(p)
    /\ \E token \in TokenInputs, key \in KeyInputs, plan \in CreatePlans, site \in SiteInputs :
          LET r == Request("create", key)
          IN Step(p, IF tokenRejected(token)
                     THEN Answer(Request("create", ""),
                                 Response(401, FALSE, "Token de admin inválido."))
                     ELSE IF key = ""
                     THEN Answer(r, Response(400, FALSE, "license_key é obrigatória."))
                     ELSE GoOn([r EXCEPT !.pc = "select", !.ctx = "create1",
                                         !.ins = Row(plan, 0, 0, site, NoTime, NoTime)]))
    /\ started' = started + 1
    /\ UNCHANGED <<db, clock, resetMonths>>

\* the INSERT of create-license; created_at takes the column default NOW().
\* license_key is the primary key: a second row for it is a unique violation,
\* which pool.query reports by rejecting
Insert(p) ==
    /\ proc[p].pc = "insert"
    /\ LET r == proc[p]
       IN IF r.key \in DOMAIN db
          THEN Step(p, Catch(r)) /\ UNCHANGED db
          ELSE /\ db' = InsertRow(db, r.key, [r.ins EXCEPT !.created_at = clock])
               /\ Step(p, GoOn([r EXCEPT !.pc = "select", !.ctx = "create2", !.ins = NoRow]))
    /\ UNCHANGED <<clock, started, resetMonths>>

ResetStart(p) ==
    /\ CanStart(p)
    /\ \E token \in TokenInputs, key \in KeyInputs :
          LET r == Request("reset", key)
          IN Step(p, IF tokenRejected(token)
                     THEN Answer(Request("reset", ""),
                                 Response(401, FALSE, "Token de admin inválido."))
                     ELSE IF key = ""
                     THEN Answer(r, Response(400, FALSE, "license_key é obrigatória."))
                     ELSE GoOn([r EXCEPT !.pc = "admin_reset", !.now = clock]))
    /\ started' = started + 1
    /\ UNCHANGED <<db, clock, resetMonths>>

\* the UPDATE of reset-license, then the call of getLicenseFromDB
AdminReset(p) ==
    /\ proc[p].pc = "admin_reset"
    /\ LET r == proc[p]
       IN /\ db' = UpdateRow(db, r.key, resetRow(db[r.key], r.now))
          /\ Step(p, GoOn([r EXCEPT !.pc = "select", !.ctx = "reset", !.now = NoTime]))
    /\ UNCHANGED <<clock, started, resetMonths>>

----------------------------------------------------------------------------
(* POST /admin/list-licenses *)

\* SELECT * FROM licenses ORDER BY created_at DESC: the rows as <<key, row>>
\* pairs, rows of equal created_at in either order
OrderedRows(table) ==
    { rows \in UNION { [1..n -> { <<k, table[k]>> : k \in DOMAIN table }] :
                          n \in {Cardinality(DOMAIN table)} } :
        /\ \A i, j \in DOMAIN rows : i # j => rows[i][1] # rows[j][1]
        /\ \A i, j \in DOMAIN rows :
              i < j => rows[i][2].created_at >= rows[j][2].created_at }

\* the loop over the selected rows, from the row at the head of rest up to
\* the next awaited UPDATE of normalizeLicenseRow, or to the response
RECURSIVE ListLoop(_, _, _)
ListLoop(r, rest, now) ==
    IF rest = <<>>
    THEN Answer(r, Response(200, TRUE, ""))
    ELSE LET k == Head(rest)[1]
             row == Head(rest)[2]
             at == [r EXCEPT !.key = k, !.row = row, !.now = now, !.rest = Tail(rest)]
         IN IF needReset(row, now)
            THEN GoOn([at EXCEPT !.pc = "list_reset"])
            ELSE IF needQuotaFix(row)
            THEN GoOn([at EXCEPT !.pc = "list_quota"])
            ELSE ListLoop(r, Tail(rest), now)

ListStart(p) ==
    /\ CanStart(p)
    /\ \E token \in TokenInputs :
          LET r == Request("list", "")
          IN Step(p, IF tokenRejected(token)
                     THEN Answer(r, Response(401, FALSE, "Token de admin inválido."))
                     ELSE GoOn([r EXCEPT !.pc = "list_select"]))
    /\ started' = started + 1
    /\ UNCHANGED <<db, clock, resetMonths>>

ListSelect(p) ==
    /\ proc[p].pc = "list_select"
    /\ \E rows \in OrderedRows(db) :
          Step(p, ListLoop([proc[p] EXCEPT !.pc = "idle"], rows, clock))
    /\ UNCHANGED <<db, clock, started, resetMonths>>

\* the reset UPDATE of normalizeLicenseRow for the row being listed
ListResetWrite(p) ==
    /\ proc[p].pc = "list_reset"
    /\ LET r == proc[p]
           done == [r EXCEPT !.pc = "idle", !.key = "", !.row = NoRow, !.now = NoTime]
       IN /\ db' = UpdateRow(db, r.key, resetRow(db[r.key], r.now))
          /\ resetMonths' = resetMonths \cup
                            {<<r.key, getUTCFullYear(r.now), getUTCMonth(r.now)>>}
          /\ Step(p, IF needQuotaFix(r.row)
                     THEN GoOn([r EXCEPT !.pc = "list_quota"])
                     ELSE ListLoop(done, r.rest, clock))
    /\ UNCHANGED <<clock, started>>

\* the quota UPDATE of normalizeLicenseRow for the row being listed
ListQuotaWrite(p) ==
    /\ proc[p].pc = "list_quota"
    /\ LET r == proc[p]
           done == [r EXCEPT !.pc = "idle", !.key = "", !.row = NoRow, !.now = NoTime]
       IN /\ db' = UpdateRow(db, r.key, fixQuotaRow(db[r.key], officialQuota(r.row)))
          /\ Step(p, ListLoop(done, r.rest, clock))
    /\ UNCHANGED <<clock, started, resetMonths>>

----------------------------------------------------------------------------
(* POST /freemius/webhook *)

FREEMIUS_WEBHOOK_SECRET == "freemius-secret-dev"

\* the hex HMAC-SHA256 of a body under a key: one digest per (key, body),
\* different pairs giving different digests
HmacSha256Hex(key, rawBody) == <<key, rawBody>>

\* a header that was not sent
NoSig == <<>>

\* a verification that checks the key of the digest and not the body
verifyKeyOnly(rawBody, signature) ==
    IF signature = NoSig
    THEN FALSE
    ELSE signature[1] = FREEMIUS_WEBHOOK_SECRET

verifyFreemiusSignature(rawBody, signature) ==
    IF signature = NoSig
    THEN FALSE
    ELSE HmacSha256Hex(FREEMIUS_WEBHOOK_SECRET, rawBody) = signature

\* a truthy JSON value that is not a string (a number)
NotAString == <<"number">>

\* JSON objects of the payload; present = FALSE is an absent member
LicenseObj(secret_key, key) == [present |-> TRUE, secret_key |-> secret_key, key |-> key]
NoLicenseObj == [present |-> FALSE, secret_key |-> "", key |-> ""]
PlanObj(title, name) == [present |-> TRUE, title |-> title, name |-> name]
NoPlanObj == [present |-> FALSE, title |-> NullStr, name |-> NullStr]

EmptyPayload ==
    [license |-> NoLicenseObj, subscription_license |-> NoLicenseObj,
     install_license |-> NoLicenseObj, plan |-> NoPlanObj,
     subscription_plan |-> NoPlanObj, plan_title |-> NullStr, plan_name |-> NullStr,
     secret_key |-> "", site_url |-> NoUrl]

Bodies == {"not json", "null", "B1", "B2", "B3", "B4", "B5", "B6", "B7", "B8"}

\* JSON.parse: "throws", "null" (the literal null) or "object"
JsonKind(body) ==
    CASE body = "not json" -> "throws"
      [] body = "null" -> "null"
      [] OTHER -> "object"

Text_Starter == <<"S","t","a","r","t","e","r">>
Text_EnterprisePlan == <<"E","n","t","e","r","p","r","i","s","e"," ","P","l","a","n">>
Text_PRO == <<"P","R","O">>
Text_ProEnterprise == <<"P","r","o"," ","+"," ","E","N","T","E","R","P","R","I","S","E">>
Text_improved == <<"i","m","p","r","o","v","e","d">>

JsonParse(body) ==
    CASE body = "B1" ->   \* {"license":{"key":"K1"},"plan":{"name":"Starter"}}
            [EmptyPayload EXCEPT !.license = LicenseObj("", "K1"),
                                 !.plan = PlanObj(NullStr, Text_Starter)]
      [] body = "B2" ->   \* license.secret_key and license.key, plan.title, site.url
            [EmptyPayload EXCEPT !.license = LicenseObj("K1", "K2"),
                                 !.plan = PlanObj(Text_EnterprisePlan, Text_Starter),
                                 !.site_url = "https://c.example"]
      [] body = "B3" ->   \* {"secret_key":"K2","plan_name":"PRO"}
            [EmptyPayload EXCEPT !.secret_key = "K2", !.plan_name = Text_PRO]
      [] body = "B4" ->   \* subscription.license.key, subscription.plan.title
            [EmptyPayload EXCEPT !.subscription_license = LicenseObj("", "K1"),
                                 !.subscription_plan = PlanObj(Text_ProEnterprise, NullStr)]
      [] body = "B5" ->   \* {"install":{"license":{"key":"K2"}}}
            [EmptyPayload EXCEPT !.install_license = LicenseObj("", "K2")]
      [] body = "B6" ->   \* a plan and a site, no license identifier
            [EmptyPayload EXCEPT !.plan = PlanObj(Text_PRO, NullStr),
                                 !.site_url = "https://c.example"]
      [] body = "B7" ->   \* {"license":{"key":"K1"},"plan":{"title":5}}
            [EmptyPayload EXCEPT !.license = LicenseObj("", "K1"),
                                 !.plan = PlanObj(NotAString, NullStr)]
      [] body = "B8" ->   \* plan.title "", plan_title "improved", top-level secret_key
            [EmptyPayload EXCEPT !.license = LicenseObj("", ""),
                                 !.secret_key = "K1",
                                 !.plan = PlanObj(<<>>, NullStr),
                                 !.plan_title = Text_improved]

\* payload.license || payload.subscription?.license || payload.install?.license || null
licenseObjOf(payload) ==
    IF payload.license.present THEN payload.license
    ELSE IF payload.subscription_license.present THEN payload.subscription_license
    ELSE payload.install_license

\* payload.plan || payload.subscription?.plan || null
planObjOf(payload) ==
    IF payload.plan.present THEN payload.plan ELSE payload.subscription_plan

\* licenseObj?.secret_key || licenseObj?.key || payload.secret_key || null
licenseKeyOf(payload) ==
    LET licenseObj == licenseObjOf(payload)
    IN IF licenseObj.secret_key # "" THEN licenseObj.secret_key
       ELSE IF licenseObj.key # "" THEN licenseObj.key
       ELSE payload.secret_key

\* planObj?.title || planObj?.name || payload.plan_title || payload.plan_name || "starter"
planNameRawOf(payload) ==
    LET planObj == planObjOf(payload)
    IN OrElse(planObj.title,
         OrElse(planObj.name,
           OrElse(payload.plan_title,
             OrElse(payload.plan_name, S_starter))))

\* the classification testing "pro" before "enterprise"
selectedPlanProFirst(planLower) ==
    IF includes(planLower, S_pro) THEN S_pro
    ELSE IF includes(planLower, S_enterprise) THEN S_enterprise
    ELSE S_starter

selectedPlanOf(planLower) ==
    IF includes(planLower, S_enterprise) THEN S_enterprise
    ELSE IF includes(planLower, S_pro) THEN S_pro
    ELSE S_starter

\* the handler from the signature check to the call of pool.query
WebhookReceive(body, signature, now) ==
    LET r == Request("webhook", "")
        payload == JsonParse(body)
        licenseKey == licenseKeyOf(payload)
        planNameRaw == planNameRawOf(payload)
        selectedPlan == selectedPlanOf(toLowerCase(planNameRaw))
    IN IF ~verifyFreemiusSignature(body, signature)
       THEN Answer(r, Response(401, FALSE, "assinatura inválida"))
       ELSE IF JsonKind(body) = "throws"
       THEN Answer(r, Response(400, FALSE, "json inválido"))
       ELSE IF JsonKind(body) = "null"
       THEN Answer(r, NoAnswer)        \* payload.license of null: TypeError
       ELSE IF licenseKey = ""
       THEN Answer(r, Response(400, FALSE, "sem licença no payload"))
       ELSE IF planNameRaw = NotAString
       THEN Answer(r, NoAnswer)        \* toLowerCase is not a function: TypeError
       ELSE GoOn([r EXCEPT !.pc = "upsert", !.key = licenseKey,
                           !.ins = Row(selectedPlan, PLAN_QUOTAS(selectedPlan), 0,
                                       payload.site_url, NoTime, now)])

SignatureInputs(body) ==
    {NoSig,
     HmacSha256Hex(FREEMIUS_WEBHOOK_SECRET, body),
     HmacSha256Hex("another secret", body),
     HmacSha256Hex(FREEMIUS_WEBHOOK_SECRET, "another body")}

WebhookStart(p, body, signature) ==
    /\ CanStart(p)
    /\ LET o == WebhookReceive(body, signature, clock)
       IN IF o.out.resp = NoAnswer
          THEN \E thrown \in Thrown(Request("webhook", "")) : Step(p, thrown)
          ELSE Step(p, o)
    /\ started' = started + 1
    /\ UNCHANGED <<db, clock, resetMonths>>

\* an upsert whose DO UPDATE also takes used_this_month, site_url and
\* last_reset_at from the new row
upsertRowOverwriting(table, k, ins, dbNow) ==
    IF k \in DOMAIN table
    THEN [table EXCEPT ![k] = [ins EXCEPT !.created_at = table[k].created_at]]
    ELSE InsertRow(table, k, [ins EXCEPT !.created_at = dbNow])

\* INSERT ... ON CONFLICT (license_key) DO UPDATE SET plan, monthly_quota
upsertRow(table, k, ins, dbNow) ==
    IF k \in DOMAIN table
    THEN [table EXCEPT ![k].plan = ins.plan, ![k].monthly_quota = ins.monthly_quota]
    ELSE InsertRow(table, k, [ins EXCEPT !.created_at = dbNow])

Upsert(p) ==
    /\ proc[p].pc = "upsert"
    /\ db' = upsertRow(db, proc[p].key, proc[p].ins, clock)
    /\ Step(p, Answer(proc[p], Response(200, TRUE, "")))
    /\ UNCHANGED <<clock, started, resetMonths>>

----------------------------------------------------------------------------
(* Time passes *)

Tick ==
    /\ clock < T0 + MaxTicks
    /\ clock' = clock + 1
    /\ okThisMonth' = IF sameMonth(clock, clock + 1)
                      THEN okThisMonth
                      ELSE [k \in Keys |-> 0]
    /\ out' = NoOut
    /\ UNCHANGED <<db, proc, started, resetMonths>>

----------------------------------------------------------------------------

Next ==
    \/ \E p \in Procs : UsageStart(p)
    \/ \E p \in Procs : OptimizeStart(p)
    \/ \E p \in Procs : CreateStart(p)
    \/ \E p \in Procs : ResetStart(p)
    \/ \E p \in Procs : ListStart(p)
    \/ \E p \in Procs : \E body \in Bodies : \E signature \in SignatureInputs(body) :
            WebhookStart(p, body, signature)
    \/ \E p \in Procs : Select(p)
    \/ \E p \in Procs : ResetWrite(p)
    \/ \E p \in Procs : QuotaWrite(p)
    \/ \E p \in Procs : Resize(p)
    \/ \E p \in Procs : Generate(p)
    \/ \E p \in Procs : IncrementUsage(p)
    \/ \E p \in Procs : Insert(p)
    \/ \E p \in Procs : AdminReset(p)
    \/ \E p \in Procs : ListSelect(p)
    \/ \E p \in Procs : ListResetWrite(p)
    \/ \E p \in Procs : ListQuotaWrite(p)
    \/ \E p \in Procs : Upsert(p)
    \/ \E p \in Procs : ExternalFail(p)
    \/ \E p \in Procs : DbFail(p)
    \/ Tick

Spec == Init /\ [][Next]_vars

----------------------------------------------------------------------------
(* Requests handled one after another, every awaited call succeeding *)

AllIdle == \A p \in Procs : proc[p].pc = "idle"

NextSeq ==
    \/ AllIdle /\ \E p \in Procs : UsageStart(p)
    \/ AllIdle /\ \E p \in Procs : OptimizeStart(p)
    \/ \E p \in Procs : Select(p)
    \/ \E p \in Procs : ResetWrite(p)
    \/ \E p \in Procs : QuotaWrite(p)
    \/ \E p \in Procs : Resize(p)
    \/ \E p \in Procs : Generate(p)
    \/ \E p \in Procs : IncrementUsage(p)
    \/ AllIdle /\ Tick

SpecSeq == Init /\ [][NextSeq]_vars

(* Concurrent /optimize/image requests inside one month, every awaited call
   succeeding, no other request *)

NextOptimize ==
    \/ \E p \in Procs : OptimizeStart(p)
    \/ \E p \in Procs : Select(p)
    \/ \E p \in Procs : ResetWrite(p)
    \/ \E p \in Procs : QuotaWrite(p)
    \/ \E p \in Procs : Resize(p)
    \/ \E p \in Procs : Generate(p)
    \/ \E p \in Procs : IncrementUsage(p)

SpecOptimize == Init /\ [][NextOptimize]_vars

----------------------------------------------------------------------------
(* Vocabulary of the properties, stated apart from the handlers' code *)

\* t lies in the UTC year and month of now
InMonthOf(t, now) == t # NoTime /\ t \div TicksPerMonth = now \div TicksPerMonth

\* the word w occurs in s, letter case ignored
ContainsWord(s, w) ==
    \E i \in 1..Len(s) :
        /\ i + Len(w) - 1 <= Len(s)
        /\ \A j \in 1..Len(w) : LowerChar(s[i + j - 1]) = w[j]

\* the fixed table {starter:300, pro:1500, enterprise:5000}
TableQuota(word) ==
    IF word = S_enterprise THEN 5000 ELSE IF word = S_pro THEN 1500 ELSE 300

RecognizedPlan(plan) ==
    \E word \in {S_starter, S_pro, S_enterprise} :
        Len(plan) = Len(word) /\ ContainsWord(plan, word)

\* the quota a license is held to: the table's for a recognized plan, the
\* stored one otherwise
QuotaOfLicense(row) ==
    IF RecognizedPlan(row.plan)
    THEN TableQuota([i \in DOMAIN row.plan |-> LowerChar(row.plan[i])])
    ELSE row.monthly_quota

\* handler p takes this step and its read of the license ends with it
ReadEnds(p) ==
    /\ Select(p) \/ ResetWrite(p) \/ QuotaWrite(p)
    /\ proc'[p].pc \notin {"reset_write", "quota_write"}

\* this step is the arrival of a webhook request in slot p
WebhookArrives(p) ==
    /\ started' # started
    /\ out'.kind = "webhook" \/ (proc'[p] # proc[p] /\ proc'[p].kind = "webhook")

\* this step sends a success:true answer carrying the license it read
ReturnsLicense == out'.kind \in {"usage", "optimize", "create", "reset"} /\ out'.resp.success

----------------------------------------------------------------------------
(* C1: quota enforcement on /optimize/image.  With the requests handled one
   after another and every awaited call succeeding, a request for a license
   that has had n generations this month and is held to quota Q is answered
   success:true exactly while n < Q, and then the stored used_this_month is
   n + 1; once n has reached Q it is answered success:false "Limite do
   plano atingido" and used_this_month stays n.  Between requests the stored
   used_this_month of a license reset this month is the number of its
   generations this month. *)
C1_StepOk(k) ==
    LET n == okThisMonth[k]
        Q == QuotaOfLicense(db'[k])
    IN /\ out'.resp.status = 200
       /\ out'.resp.success =>
             /\ n < Q
             /\ db'[k].used_this_month = n + 1
             /\ out'.resp.used_this_month = n + 1
       /\ ~out'.resp.success =>
             /\ out'.resp.msg = "Limite do plano atingido"
             /\ n >= Q
             /\ db'[k].used_this_month = n
             /\ db' = db

C1_QuotaEnforcement ==
    /\ [](AllIdle => \A k \in DOMAIN db :
             InMonthOf(db[k].last_reset_at, clock) => db[k].used_this_month = okThisMonth[k])
    /\ [][\A k \in Keys :
             (out'.kind = "optimize" /\ out'.key = k /\ k \in DOMAIN db
                 /\ out'.resp.msg # "Nenhuma imagem recebida.")
             => C1_StepOk(k)]_vars

\* the one generation of a quota of 1 was granted, the next request refused
C1_Witness ==
    /\ out.kind = "optimize" /\ out.key = "K1"
    /\ out.resp.msg = "Limite do plano atingido"
    /\ db["K1"].monthly_quota = 1 /\ db["K1"].used_this_month = 1
    /\ okThisMonth["K1"] = 1

----------------------------------------------------------------------------
(* C2: monthly reset on read.  A read that finds last_reset_at in the
   current UTC year and month writes nothing to used_this_month or
   last_reset_at and returns the used_this_month it read; a read that finds
   it null or in another year or month sets used_this_month = 0 and
   last_reset_at = now for that key alone and returns used_this_month = 0. *)
C2_Select(p) ==
    LET k == proc[p].key
    IN IF InMonthOf(db[k].last_reset_at, clock)
       THEN /\ db' = db
            /\ proc'[p].pc # "reset_write"
            /\ ReturnsLicense => out'.resp.used_this_month = db[k].used_this_month
       ELSE /\ db' = db
            /\ proc'[p].pc = "reset_write"
            /\ proc'[p].now = clock

C2_ResetWrite(p) ==
    LET k == proc[p].key
    IN /\ ~InMonthOf(proc[p].row.last_reset_at, proc[p].now)
       /\ db'[k].used_this_month = 0
       /\ db'[k].last_reset_at = proc[p].now
       /\ \A j \in DOMAIN db \ {k} : db'[j] = db[j]
       /\ ReturnsLicense => out'.resp.used_this_month = 0

C2_QuotaWrite(p) ==
    LET k == proc[p].key
        r == proc[p]
    IN /\ db'[k].used_this_month = db[k].used_this_month
       /\ db'[k].last_reset_at = db[k].last_reset_at
       /\ ReturnsLicense =>
             out'.resp.used_this_month =
                 IF InMonthOf(r.row.last_reset_at, r.now) THEN r.row.used_this_month ELSE 0

C2_MonthlyResetOnRead ==
    [][\A p \in Procs :
          /\ (Select(p) /\ proc[p].key \in DOMAIN db) => C2_Select(p)
          /\ ResetWrite(p) => C2_ResetWrite(p)
          /\ QuotaWrite(p) => C2_QuotaWrite(p)]_vars

\* a /usage read found the exhausted license of last year's same month,
\* reset it and returned 0
C2_Witness ==
    /\ out.kind = "usage" /\ out.key = "K1" /\ out.resp.success
    /\ out.resp.used_this_month = 0 /\ out.resp.monthly_quota = 5000
    /\ <<"K1", getUTCFullYear(T0), getUTCMonth(T0)>> \in resetMonths
    /\ db["K1"].used_this_month = 0 /\ db["K1"].last_reset_at = T0

----------------------------------------------------------------------------
(* C3: self-healing quota.  Every read of a license with a recognized plan
   returns the table's quota for that plan, and when the read has ended the
   stored monthly_quota is the table's quota for the stored plan. *)
C3_SelfHealingQuota ==
    [][\A p \in Procs :
          (ReadEnds(p) /\ proc[p].key \in DOMAIN db) =>
              LET stored == db'[proc[p].key]
                  seen == IF proc[p].pc = "select" THEN db[proc[p].key] ELSE proc[p].row
              IN /\ (RecognizedPlan(seen.plan) /\ ReturnsLicense) =>
                        out'.resp.monthly_quota = QuotaOfLicense(seen)
                 /\ RecognizedPlan(stored.plan) =>
                        stored.monthly_quota = QuotaOfLicense(stored)]_vars

----------------------------------------------------------------------------
(* C4: the normalizer's reset write is executed at most once per license
   and UTC month. *)
C4_ResetOncePerMonth ==
    [][\A p \in Procs :
          ResetWrite(p) =>
              <<proc[p].key, getUTCFullYear(proc[p].now), getUTCMonth(proc[p].now)>>
                  \notin resetMonths]_vars

----------------------------------------------------------------------------
(* C5: no usage increment is lost.  When all the concurrently handled
   optimize requests have been answered, the stored used_this_month of a
   license reset this month is the number of its generations answered
   success:true this month. *)
C5_NoLostIncrement ==
    AllIdle => \A k \in DOMAIN db :
        InMonthOf(db[k].last_reset_at, clock) => db[k].used_this_month = okThisMonth[k]

----------------------------------------------------------------------------
(* C6: POST /admin/create-license for a license_key that already exists.

   C6_ExistingRecordUntouched is the claim as written: no step of the
   handler changes any field of the existing record, and the answer is
   HTTP 200, success:false, "Essa licença já existe.". *)
CreateOnExisting(p) ==
    /\ proc[p].kind = "create"
    /\ proc[p].ctx # "create2"          \* the row is not one this handler inserted
    /\ proc'[p] # proc[p]
    /\ proc[p].key \in DOMAIN db

AlreadyExists(resp) ==
    resp.status = 200 /\ ~resp.success /\ resp.msg = "Essa licença já existe."

C6_ExistingRecordUntouched ==
    [][\A p \in Procs :
          (CreateOnExisting(p) /\ ~DbFail(p)) =>
              /\ db' = db
              /\ out'.kind = "create" => AlreadyExists(out'.resp)]_vars

(* C6, amended: the handler never changes license_key, plan, site_url or
   created_at of the existing record and never touches another record; it
   changes used_this_month and last_reset_at only by the reset of its read
   (to 0 and now, the last_reset_at it read being null or of another
   month) and monthly_quota only by the quota correction of its read; it
   answers success:false, with HTTP 200 "Essa licença já existe." when its
   read found the record, with HTTP 500 when a query failed or when the
   record appeared after its read and its INSERT hit the primary key. *)
C6_Frame(p) ==
    LET r == proc[p]
        k == r.key
    IN /\ DOMAIN db' = DOMAIN db
       /\ \A j \in DOMAIN db \ {k} : db'[j] = db[j]
       /\ db'[k].plan = db[k].plan
       /\ db'[k].site_url = db[k].site_url
       /\ db'[k].created_at = db[k].created_at
       /\ (db'[k].used_this_month # db[k].used_this_month
             \/ db'[k].last_reset_at # db[k].last_reset_at) =>
               /\ r.pc = "reset_write"
               /\ ~InMonthOf(r.row.last_reset_at, r.now)
               /\ db'[k].used_this_month = 0
               /\ db'[k].last_reset_at = r.now
       /\ db'[k].monthly_quota # db[k].monthly_quota =>
               /\ r.pc = "quota_write"
               /\ db'[k].monthly_quota = QuotaOfLicense(r.row)

C6_Answer(p) ==
    /\ out'.kind = "create" =>
          /\ ~out'.resp.success
          /\ AlreadyExists(out'.resp) \/ out'.resp.status = 500
    /\ ReadEnds(p) => AlreadyExists(out'.resp)
    /\ proc[p].pc = "insert" => (out'.resp.status = 500 /\ db' = db)

C6_ExistingRecordKept ==
    [][\A p \in Procs : CreateOnExisting(p) => (C6_Frame(p) /\ C6_Answer(p))]_vars

\* a create request for the license of the earlier server was refused after
\* its read had reset the usage and corrected the quota
C6_Witness ==
    /\ out.kind = "create" /\ out.key = "K1" /\ AlreadyExists(out.resp)
    /\ db["K1"] = [LegacyRow EXCEPT !.used_this_month = 0, !.last_reset_at = T0,
                                    !.monthly_quota = 300]

----------------------------------------------------------------------------
(* C7: a webhook whose x-freemius-signature is missing, or is not the hex
   HMAC-SHA256 of the raw body under the shared secret, is answered 401
   whatever the body is (valid JSON or not), no row is inserted or updated
   and no handler is left running. *)
C7_BadSignatureRejected ==
    [][\A p \in Procs : WebhookArrives(p) =>
        \A body \in Bodies : \A signature \in SignatureInputs(body) :
          (/\ WebhookStart(p, body, signature)
           /\ \/ signature = NoSig
              \/ signature # HmacSha256Hex(FREEMIUS_WEBHOOK_SECRET, body))
          => /\ out'.kind = "webhook"
             /\ out'.resp.status = 401
             /\ db' = db
             /\ proc' = proc]_vars

\* a webhook was answered 401 with licenses in the table
C7_Witness ==
    /\ out.kind = "webhook" /\ out.resp.status = 401
    /\ DOMAIN db # {}
    /\ AllIdle

----------------------------------------------------------------------------
(* C8: webhook plan classification.  For a correctly signed JSON object
   whose plan name is text: the license identifier is the license object's
   secret_key, else its key, else the top-level secret_key; with none of
   them the answer is 400 and the table is unchanged; otherwise the upsert
   stores plan enterprise when the name contains "enterprise" in any letter
   case, else pro when it contains "pro", else starter, with that plan's
   quota from the table. *)
C8_LicenseId(payload) ==
    LET obj == licenseObjOf(payload)
        candidates == <<obj.secret_key, obj.key, payload.secret_key>>
        given == {i \in 1..3 : candidates[i] # ""}
    IN IF given = {} THEN ""
       ELSE candidates[CHOOSE i \in given : \A j \in given : i <= j]

C8_Plan(name) ==
    IF ContainsWord(name, S_enterprise) THEN S_enterprise
    ELSE IF ContainsWord(name, S_pro) THEN S_pro
    ELSE S_starter

C8_Receive(p, body) ==
    LET payload == JsonParse(body)
        id == C8_LicenseId(payload)
        name == planNameRawOf(payload)
    IN IF id = ""
       THEN /\ out'.kind = "webhook" /\ out'.resp.status = 400
            /\ db' = db
            /\ proc' = proc
       ELSE name # NotAString =>
            /\ proc'[p].pc = "upsert"
            /\ proc'[p].key = id
            /\ proc'[p].ins.plan = C8_Plan(name)
            /\ proc'[p].ins.monthly_quota = TableQuota(C8_Plan(name))

C8_PlanClassification ==
    [][\A p \in Procs :
          /\ WebhookArrives(p) => \A body \in Bodies :
                (/\ JsonKind(body) = "object"
                 /\ WebhookStart(p, body, HmacSha256Hex(FREEMIUS_WEBHOOK_SECRET, body)))
                => C8_Receive(p, body)
          /\ Upsert(p) =>
                /\ db'[proc[p].key].plan = proc[p].ins.plan
                /\ db'[proc[p].key].monthly_quota = proc[p].ins.monthly_quota]_vars

\* the license with one generation left, plan pro, was moved to enterprise
C8_Witness ==
    /\ out.kind = "webhook" /\ out.key = "K1" /\ out.resp.success
    /\ db["K1"].plan = S_enterprise /\ db["K1"].monthly_quota = 5000
    /\ db["K1"].used_this_month = 1499

----------------------------------------------------------------------------
(* C9: the webhook upsert on an existing key changes plan and
   monthly_quota only; on an absent key it inserts a row with
   used_this_month = 0 and last_reset_at = now, now being the time the
   handler built the statement. *)
C9_UpsertFrame ==
    [][\A p \in Procs :
          /\ WebhookArrives(p) => \A body \in Bodies : \A signature \in SignatureInputs(body) :
                (proc'[p].pc = "upsert" /\ WebhookStart(p, body, signature))
                => proc'[p].ins.last_reset_at = clock
          /\ Upsert(p) =>
                LET k == proc[p].key
                IN /\ \A j \in DOMAIN db \ {k} : db'[j] = db[j]
                   /\ DOMAIN db' = DOMAIN db \cup {k}
                   /\ IF k \in DOMAIN db
                      THEN /\ db'[k].used_this_month = db[k].used_this_month
                           /\ db'[k].site_url = db[k].site_url
                           /\ db'[k].created_at = db[k].created_at
                           /\ db'[k].last_reset_at = db[k].last_reset_at
                      ELSE /\ db'[k].used_this_month = 0
                           /\ db'[k].last_reset_at = proc[p].ins.last_reset_at]_vars

\* a payload with site https://c.example moved a license that has another
\* site and 1499 generations to enterprise and left both as they were
C9_Witness ==
    /\ out.kind = "webhook" /\ out.key = "K1" /\ out.resp.success
    /\ db["K1"].plan = S_enterprise
    /\ db["K1"].site_url = "https://a.example"
    /\ db["K1"].used_this_month = 1499
    /\ db["K1"].last_reset_at = T0 - 1

----------------------------------------------------------------------------
(* C10: no partial success on /optimize/image.  A request that is answered
   with an error (HTTP 400, HTTP 500, or success:false) has not executed
   incrementUsage. *)
HasIncremented(p) == proc[p].kind = "optimize" /\ proc[p].ctx = "opt2"

C10_NoPartialSuccess ==
    [][\A p \in Procs :
          (/\ proc[p].kind = "optimize"
           /\ proc'[p] # proc[p]
           /\ out'.kind = "optimize"
           /\ ~out'.resp.success)
          => ~HasIncremented(p)]_vars

----------------------------------------------------------------------------
(* C11: image source rule on /optimize/image.  A request that supplies both
   image_url and image_base64, or neither, never reaches the image
   preprocessor (and so neither the generator nor incrementUsage), and the
   answer it gets when no query fails is HTTP 400. *)
BadImageSource(p) ==
    /\ proc[p].kind = "optimize"
    /\ proc[p].ctx = "opt1"
    /\ proc[p].img \in {"both", "none"}

C11_ImageSourceRule ==
    [][\A p \in Procs :
          (BadImageSource(p) /\ proc'[p] # proc[p] /\ ~DbFail(p)) =>
              /\ proc'[p].pc # "resize"
              /\ proc'[p].pc = "idle" => out'.resp.status = 400]_vars

----------------------------------------------------------------------------
(* C12: every endpoint answers a failed database query with HTTP 500.  The
   step at which a query of a handler fails sends that handler's caller an
   HTTP 500 answer. *)
C12_FailureAnswered500 ==
    [][\A p \in Procs :
          DbFail(p) => /\ out'.kind = proc[p].kind
                       /\ out'.resp.status = 500]_vars

----------------------------------------------------------------------------
(* C13: the quota is not exceeded under concurrency.  With concurrently
   handled /optimize/image requests inside one month, no plan change and no
   admin reset: the number of success:true answers for a license this month
   is at most its quota, its stored used_this_month is at most its stored
   monthly_quota, and no success:true answer carries a negative remaining. *)
C13_QuotaNotExceeded ==
    /\ [](\A k \in DOMAIN db :
             /\ okThisMonth[k] <= QuotaOfLicense(db[k])
             /\ db[k].used_this_month <= db[k].monthly_quota)
    /\ [][(out'.kind = "optimize" /\ out'.resp.success)
             => out'.resp.remaining >= 0]_vars

====
